---- MODULE Spec2Model ----
(***************************************************************************)
(* Node-tree editor (src/src/sketch.rs, driven by the loop of              *)
(* src/src/main.rs): the scene forest, the deferred request queue, the     *)
(* settings/text-box focus ids and the 2D camera.                          *)
(*                                                                         *)
(* Numbers.  f32 quantities are kept in fixed point:                       *)
(*   - seconds and zoom in units of 1/UNIT (zoom 1.0 = UNIT), so that      *)
(*     ZOOM_INCREMENT, MIN_ZOOM, MAX_ZOOM and TIMESTEP are integers and    *)
(*     `zoom += 1.0 * frame_time` adds the frame time as it stands;        *)
(*   - world and screen coordinates in whole pixels; a quotient by the     *)
(*     zoom is rounded down to a whole pixel.                              *)
(* Text is a sequence of one-character strings.                            *)
(* Option<T> is a sequence of length at most one.                          *)
(* Colour, rotation speed and current rotation of a node take no part in   *)
(* the tree, queue, focus or camera logic and are left out of the node.    *)
(***************************************************************************)
EXTENDS Integers, Sequences, FiniteSets, TLC

VARIABLES
    scene_objects,          \* State.scene_objects : Vec<SceneObject>
    next_id,                \* State.next_id
    active_settings_id,     \* State.active_settings_id : Option<u32>
    active_textbox_id,      \* State.active_textbox_id : Option<u32>
    requests,               \* State.requests : Vec<EditorRequest>
    camera,                 \* State.camera : [target, offset, zoom]
    time_since_last_update, \* State.time_since_last_update
    pc,                     \* position in the main loop
    edits,                  \* input budget: keystrokes and shape toggles delivered so far
    last_step,              \* history: what the latest step of this frame did, if one ran
    shadow                  \* history: the forest with every request applied when raised

vars == <<scene_objects, next_id, active_settings_id, active_textbox_id, requests,
          camera, time_since_last_update, pc, edits, last_step, shadow>>

---------------------------------------------------------------------------
(* Bounds of the model *)

\* Add Child is pressed only while the ids handed out and asked for stay below this
MaxId == 7
\* a button is pressed only while the queue is shorter than this
MaxRequests == 2
\* a character is typed only into a buffer shorter than this
MaxTextLen == 5
\* keystrokes and shape toggles are delivered only while fewer than this were
MaxEdits == 2
\* the camera is panned only while its target is nearer than this many drags to its start
MaxPan == 1

---------------------------------------------------------------------------
(* Program constants *)

FRAMES_PER_SECOND == 60
\* fixed-point units per second and per 1.0 of zoom
UNIT == 2 * FRAMES_PER_SECOND
TIMESTEP == UNIT \div FRAMES_PER_SECOND
ZOOM_INCREMENT == UNIT \div 8
MIN_ZOOM == UNIT \div 10
MAX_ZOOM == 2 * UNIT
X_SPACING == 250
Y_SPACING == 120
HIT_RADIUS == 20
PANEL_EDGE == 420
SCREEN_WIDTH == 1280
SCREEN_HEIGHT == 720
PANEL_WIDTH == 400
PADDING == 20
LAYOUT_X == 200
LAYOUT_Y == 100

None == <<>>
Some(x) == <<x>>
Unwrap(opt) == opt[1]

Vector2(x, y) == [x |-> x, y |-> y]
Rectangle(x, y, w, h) == [x |-> x, y |-> y, width |-> w, height |-> h]

Str_Root == <<"R", "o", "o", "t">>
Str_Data == <<"D", "a", "t", "a">>
Str_Render == <<"R", "e", "n", "d", "e", "r">>
Str_Mesh == <<"M", "e", "s", "h">>
Str_Texture == <<"T", "e", "x", "t", "u", "r", "e">>
Str_Shader == <<"S", "h", "a", "d", "e", "r">>
Str_NewNode == <<"N", "e", "w", " ", "N", "o", "d", "e">>

Shapes == {"Square", "Circle", "Triangle"}

\* SceneObject::new
SceneObject_new(id, text, shape) ==
    [id |-> id, text |-> text, shape |-> shape, children |-> <<>>, text_buffer |-> text]

AddChildReq(parent_id) == [kind |-> "AddChild", id |-> parent_id]
DeleteNodeReq(node_id) == [kind |-> "DeleteNode", id |-> node_id]

\* Vec::remove(index)
remove(s, index) == SubSeq(s, 1, index - 1) \o SubSeq(s, index + 1, Len(s))

\* String::pop
pop(text) == IF text = <<>> THEN text ELSE SubSeq(text, 1, Len(text) - 1)

---------------------------------------------------------------------------
(* Tree helpers *)

\* find_object_by_id_mut: depth-first, pre-order; None or Some(object)
RECURSIVE find_object_by_id_mut(_, _)
find_object_by_id_mut(objects, id) ==
    IF objects = <<>> THEN None
    ELSE LET obj == Head(objects) IN
         IF obj.id = id THEN Some(obj)
         ELSE LET found == find_object_by_id_mut(obj.children, id) IN
              IF found # None THEN found
              ELSE find_object_by_id_mut(Tail(objects), id)

\* A write through the reference find_object_by_id_mut returns: the object it
\* finds (the first in its search order) becomes new_obj.
RECURSIVE write_object(_, _, _)
write_object(objects, id, new_obj) ==
    IF objects = <<>> THEN objects
    ELSE LET obj == Head(objects) IN
         IF obj.id = id THEN <<new_obj>> \o Tail(objects)
         ELSE IF find_object_by_id_mut(obj.children, id) # None
              THEN <<[obj EXCEPT !.children = write_object(obj.children, id, new_obj)]>>
                   \o Tail(objects)
              ELSE <<obj>> \o write_object(Tail(objects), id, new_obj)

\* a delete that looks at one level only and does not descend (told from
\* find_and_delete_node by C4)
find_and_delete_shallow(objects, id_to_delete) ==
    LET found == {i \in 1..Len(objects) : objects[i].id = id_to_delete} IN
    IF found # {}
    THEN [objects |-> remove(objects, CHOOSE i \in found : TRUE), deleted |-> TRUE]
    ELSE [objects |-> objects, deleted |-> FALSE]

\* find_and_delete_node: [objects, deleted]
RECURSIVE find_and_delete_node(_, _)
RECURSIVE delete_in_children(_, _, _)
find_and_delete_node(objects, id_to_delete) ==
    IF \E i \in 1..Len(objects) : objects[i].id = id_to_delete
    THEN LET index == CHOOSE i \in 1..Len(objects) :
                          /\ objects[i].id = id_to_delete
                          /\ \A j \in 1..(i - 1) : objects[j].id # id_to_delete
         IN [objects |-> remove(objects, index), deleted |-> TRUE]
    ELSE delete_in_children(objects, id_to_delete, 1)

\* the loop `for obj in objects` of find_and_delete_node, from the i-th object on
delete_in_children(objects, id_to_delete, i) ==
    IF i > Len(objects) THEN [objects |-> objects, deleted |-> FALSE]
    ELSE LET r == find_and_delete_node(objects[i].children, id_to_delete) IN
         IF r.deleted
         THEN [objects |-> [objects EXCEPT ![i].children = r.objects], deleted |-> TRUE]
         ELSE delete_in_children(objects, id_to_delete, i + 1)

---------------------------------------------------------------------------
(* Layout and hit-testing *)

\* HashMap::insert
insert(positions, id, pos) ==
    [k \in (DOMAIN positions) \cup {id} |-> IF k = id THEN pos ELSE positions[k]]

RECURSIVE layout_recursive(_, _, _, _, _)
RECURSIVE layout_children(_, _, _, _, _, _)

\* a layout that records the nodes with children only (told from
\* layout_recursive by C11)
layout_recursive_parents(obj, x, y_start, y_cursor, positions) ==
    LET kids == layout_children(obj.children, 1, x + X_SPACING, y_start, 0, positions)
        children_height == kids.children_height
        my_pos == Vector2(x, y_start + (children_height \div 2) - (Y_SPACING \div 2))
        my_height == IF children_height > 0 THEN children_height ELSE Y_SPACING
    IN [height |-> my_height,
        y_cursor |-> y_start + my_height,
        positions |-> IF obj.children # <<>>
                      THEN insert(kids.positions, obj.id, my_pos)
                      ELSE kids.positions]

\* a layout that forgets the half row a parent is raised by (told from
\* layout_recursive by C19)
layout_recursive_low(obj, x, y_start, y_cursor, positions) ==
    LET kids == layout_children(obj.children, 1, x + X_SPACING, y_start, 0, positions)
        children_height == kids.children_height
        my_pos == IF obj.children # <<>>
                  THEN Vector2(x, y_start + (children_height \div 2))
                  ELSE Vector2(x, y_cursor)
        my_height == IF children_height > 0 THEN children_height ELSE Y_SPACING
    IN [height |-> my_height,
        y_cursor |-> y_start + my_height,
        positions |-> insert(kids.positions, obj.id, my_pos)]

\* a layout that moves the cursor on by one row whatever the height (told from
\* layout_recursive by C20)
layout_recursive_one_row(obj, x, y_start, y_cursor, positions) ==
    LET kids == layout_children(obj.children, 1, x + X_SPACING, y_start, 0, positions)
        children_height == kids.children_height
        my_pos == IF obj.children # <<>>
                  THEN Vector2(x, y_start + (children_height \div 2) - (Y_SPACING \div 2))
                  ELSE Vector2(x, y_cursor)
        my_height == IF children_height > 0 THEN children_height ELSE Y_SPACING
    IN [height |-> my_height,
        y_cursor |-> y_cursor + Y_SPACING,
        positions |-> insert(kids.positions, obj.id, my_pos)]

\* layout_recursive: [height, y_cursor, positions]; y_cursor is the value the
\* caller's cursor holds on return
layout_recursive(obj, x, y_start, y_cursor, positions) ==
    LET kids == layout_children(obj.children, 1, x + X_SPACING, y_start, 0, positions)
        children_height == kids.children_height
        my_pos == IF obj.children # <<>>
                  THEN Vector2(x, y_start + (children_height \div 2) - (Y_SPACING \div 2))
                  ELSE Vector2(x, y_cursor)
        my_height == IF children_height > 0 THEN children_height ELSE Y_SPACING
    IN [height |-> my_height,
        y_cursor |-> y_start + my_height,
        positions |-> insert(kids.positions, obj.id, my_pos)]

\* the loop `for child in &obj.children` of layout_recursive, from the i-th child on
layout_children(children, i, x, child_y_cursor, children_height, positions) ==
    IF i > Len(children)
    THEN [children_height |-> children_height, positions |-> positions]
    ELSE LET r == layout_recursive(children[i], x, child_y_cursor, child_y_cursor, positions)
         IN layout_children(children, i + 1, x, r.y_cursor, children_height + r.height,
                            r.positions)

\* the loop over the roots that process_events_and_input and draw both run
RECURSIVE layout_roots(_, _, _, _)
layout_roots(objects, i, start_y, positions) ==
    IF i > Len(objects) THEN positions
    ELSE LET r == layout_recursive(objects[i], LAYOUT_X, start_y, start_y, positions)
         IN layout_roots(objects, i + 1, r.y_cursor, r.positions)

layout_positions(objects) == layout_roots(objects, 1, LAYOUT_Y, <<>>)

\* a distance that looks at x only (told from distance_sq by C12)
distance_sq_x(a, b) == (a.x - b.x) * (a.x - b.x)

\* Vector2::distance_to, squared
distance_sq(a, b) == (a.x - b.x) * (a.x - b.x) + (a.y - b.y) * (a.y - b.y)

\* find_clicked_object: None or Some(id)
RECURSIVE find_clicked_object(_, _, _)
RECURSIVE find_clicked_in(_, _, _, _)
find_clicked_object(obj, world_pos, positions) ==
    IF /\ obj.id \in DOMAIN positions
       /\ distance_sq(world_pos, positions[obj.id]) < HIT_RADIUS * HIT_RADIUS
    THEN Some(obj.id)
    ELSE find_clicked_in(obj.children, 1, world_pos, positions)

\* the loops `for child in &obj.children` of find_clicked_object and
\* `for obj in &state.scene_objects` of process_events_and_input: first hit wins
find_clicked_in(objects, i, world_pos, positions) ==
    IF i > Len(objects) THEN None
    ELSE LET hit == find_clicked_object(objects[i], world_pos, positions) IN
         IF hit # None THEN hit ELSE find_clicked_in(objects, i + 1, world_pos, positions)

\* a quotient by the zoom, in whole pixels
div_zoom(a, zoom) == (a * UNIT) \div zoom

\* screen_to_world
screen_to_world(screen_pos, cam) ==
    Vector2(div_zoom(screen_pos.x - cam.offset.x, cam.zoom) + cam.target.x,
            div_zoom(screen_pos.y - cam.offset.y, cam.zoom) + cam.target.y)

\* a clamp that forgets its lower bound (told from clamp by C10)
clamp_above(v, lo, hi) == IF v > hi THEN hi ELSE v

\* f32::clamp
clamp(v, lo, hi) == IF v < lo THEN lo ELSE IF v > hi THEN hi ELSE v

\* check_collision_point_rec
check_collision_point_rec(point, rec) ==
    /\ point.x >= rec.x
    /\ point.x < rec.x + rec.width
    /\ point.y >= rec.y
    /\ point.y < rec.y + rec.height

---------------------------------------------------------------------------
(* The request queue *)

\* State::new_id: the value it returns, which is also the new next_id
\* an id source that does not advance (told from new_id by C5)
new_id_again(nid) == nid

new_id(nid) == nid + 1

\* an AddChild that gives the new node its parent's id (told from
\* apply_request by C13)
apply_request_same_id(objects, nid, req) ==
    IF req.kind = "AddChild"
    THEN LET id == new_id(nid)
             parent == find_object_by_id_mut(objects, req.id)
         IN [scene_objects |->
                 IF parent # None
                 THEN write_object(objects, req.id,
                          [Unwrap(parent) EXCEPT !.children =
                              Append(@, SceneObject_new(req.id, Str_NewNode, "Square"))])
                 ELSE objects,
             next_id |-> id]
    ELSE [scene_objects |-> find_and_delete_node(objects, req.id).objects,
          next_id |-> nid]

\* an AddChild that puts the new node first among the children (told from
\* apply_request by C6)
apply_request_first(objects, nid, req) ==
    IF req.kind = "AddChild"
    THEN LET id == new_id(nid)
             parent == find_object_by_id_mut(objects, req.id)
         IN [scene_objects |->
                 IF parent # None
                 THEN write_object(objects, req.id,
                          [Unwrap(parent) EXCEPT !.children =
                              <<SceneObject_new(id, Str_NewNode, "Square")>> \o @])
                 ELSE objects,
             next_id |-> id]
    ELSE [scene_objects |-> find_and_delete_node(objects, req.id).objects,
          next_id |-> nid]

\* an AddChild that makes the new node a root when its parent is not found
\* (told from apply_request by C7)
apply_request_adopt(objects, nid, req) ==
    IF req.kind = "AddChild"
    THEN LET id == new_id(nid)
             parent == find_object_by_id_mut(objects, req.id)
             new_node == SceneObject_new(id, Str_NewNode, "Square")
         IN [scene_objects |->
                 IF parent # None
                 THEN write_object(objects, req.id,
                          [Unwrap(parent) EXCEPT !.children = Append(@, new_node)])
                 ELSE Append(objects, new_node),
             next_id |-> id]
    ELSE [scene_objects |-> find_and_delete_node(objects, req.id).objects,
          next_id |-> nid]

\* one arm of the match of process_editor_requests: [scene_objects, next_id]
apply_request(objects, nid, req) ==
    IF req.kind = "AddChild"
    THEN LET id == new_id(nid)
             parent == find_object_by_id_mut(objects, req.id)
         IN [scene_objects |->
                 IF parent # None
                 THEN write_object(objects, req.id,
                          [Unwrap(parent) EXCEPT !.children =
                              Append(@, SceneObject_new(id, Str_NewNode, "Square"))])
                 ELSE objects,
             next_id |-> id]
    ELSE [scene_objects |-> find_and_delete_node(objects, req.id).objects,
          next_id |-> nid]

\* a drain that applies the first request and loses the others (told from
\* process_editor_requests by C3)
process_first_request(objects, nid, reqs) ==
    IF reqs = <<>> THEN [scene_objects |-> objects, next_id |-> nid]
    ELSE LET r == apply_request(objects, nid, Head(reqs))
         IN [scene_objects |-> r.scene_objects, next_id |-> r.next_id]

\* process_editor_requests: the drained requests applied in order
RECURSIVE process_editor_requests(_, _, _)
process_editor_requests(objects, nid, reqs) ==
    IF reqs = <<>> THEN [scene_objects |-> objects, next_id |-> nid]
    ELSE LET r == apply_request(objects, nid, Head(reqs))
         IN process_editor_requests(r.scene_objects, r.next_id, Tail(reqs))

---------------------------------------------------------------------------
(* What raylib and raygui report to the handlers *)

\* the frame times get_frame_time reports: a third and three thirds of 1/40 s
FrameTimes == {1, 3}

\* draw_settings_panel: window_rect, textbox_bounds and the two buttons
WindowRect == Rectangle(PADDING, PADDING, PANEL_WIDTH, SCREEN_HEIGHT - PADDING * 2)
BaseX == WindowRect.x + 10
TextboxBounds == Rectangle(BaseX, WindowRect.y + 40 + 25, WindowRect.width - 20, 30)
ButtonsY == TextboxBounds.y + 40 + 25 + 35 + 25 + 30 + 25 + 160
AddChildBounds == Rectangle(BaseX, ButtonsY, 150, 30)
DeleteNodeBounds == Rectangle(WindowRect.x + WindowRect.width - 160, ButtonsY, 150, 30)

\* pointer positions: on the text field, on the buttons, on the window's title
\* bar, and in the corner of the screen
TextboxPoint == Vector2(TextboxBounds.x, TextboxBounds.y)
AddChildPoint == Vector2(AddChildBounds.x, AddChildBounds.y)
DeleteNodePoint == Vector2(DeleteNodeBounds.x, DeleteNodeBounds.y)
ClosePoint == Vector2(WindowRect.x + WindowRect.width - 1, WindowRect.y)
FarPoint == Vector2(SCREEN_WIDTH - 1, SCREEN_HEIGHT - 1)

\* where the camera shows a world point (the inverse of screen_to_world)
world_to_screen(world_pos, cam) ==
    Vector2(((world_pos.x - cam.target.x) * cam.zoom) \div UNIT + cam.offset.x,
            ((world_pos.y - cam.target.y) * cam.zoom) \div UNIT + cam.offset.y)

\* what process_events_and_input reads when nothing is pressed
NoInput(ft) ==
    [frame_time |-> ft, wheel_move |-> 0, key_equal |-> FALSE, key_minus |-> FALSE,
     right_down |-> FALSE, mouse_delta |-> Vector2(0, 0),
     left_pressed |-> FALSE, mouse_pos |-> FarPoint]

\* a left press on a drawn node or on the text field's place
ClickInputs ==
    LET positions == layout_positions(scene_objects)
        points == {world_to_screen(positions[id], camera) : id \in DOMAIN positions}
                      \cup {TextboxPoint}
    IN {[NoInput(1) EXCEPT !.left_pressed = TRUE, !.mouse_pos = p] : p \in points}

\* the camera target State::new sets
Init_target == Vector2(400, 450)

\* the pointer movement of one right-button drag, in screen pixels
PanDelta == Vector2(X_SPACING, 0)

\* wheel notches and zoom keys
ZoomInputs ==
    UNION {{[NoInput(ft) EXCEPT !.wheel_move = 1], [NoInput(ft) EXCEPT !.wheel_move = -1],
            [NoInput(ft) EXCEPT !.key_equal = TRUE], [NoInput(ft) EXCEPT !.key_minus = TRUE]}
               : ft \in FrameTimes}

\* a right-button drag
PanInputs == {[NoInput(1) EXCEPT !.right_down = TRUE, !.mouse_delta = PanDelta]}

\* what draw_settings_panel reads when nothing is pressed
NoWidget ==
    [mouse_pos |-> FarPoint, left_pressed |-> FALSE, window_close |-> FALSE,
     toggle |-> "none", add_child |-> FALSE, delete_node |-> FALSE,
     chars |-> <<>>, backspace |-> FALSE, enter |-> FALSE]

PendingAdds == Cardinality({i \in 1..Len(requests) : requests[i].kind = "AddChild"})

\* the window's close button
CloseWidgets == {[NoWidget EXCEPT !.window_close = TRUE, !.mouse_pos = ClosePoint]}

\* a press on the text field and a press away from it
FocusWidgets ==
    {[NoWidget EXCEPT !.left_pressed = TRUE, !.mouse_pos = TextboxPoint],
     [NoWidget EXCEPT !.left_pressed = TRUE]}

\* the Add Child button
AddWidgets ==
    IF Len(requests) < MaxRequests /\ next_id + PendingAdds < MaxId
    THEN {[NoWidget EXCEPT !.add_child = TRUE, !.mouse_pos = AddChildPoint]}
    ELSE {}

\* the Delete Node button
DeleteWidgets ==
    IF Len(requests) < MaxRequests
    THEN {[NoWidget EXCEPT !.delete_node = TRUE, !.mouse_pos = DeleteNodePoint]}
    ELSE {}

\* Enter, with the pointer on the text field and away from it
EnterWidgets ==
    {[NoWidget EXCEPT !.enter = TRUE, !.mouse_pos = p] : p \in {TextboxPoint, FarPoint}}

\* a character, a backspace or a shape toggle; the keys with the pointer on the
\* text field and away from it
EditWidgets(obj) ==
    IF edits >= MaxEdits THEN {}
    ELSE {[NoWidget EXCEPT !.backspace = TRUE, !.mouse_pos = p] : p \in {TextboxPoint, FarPoint}}
         \cup (IF Len(obj.text_buffer) < MaxTextLen
               THEN {[NoWidget EXCEPT !.chars = <<"x">>, !.mouse_pos = p] :
                        p \in {TextboxPoint, FarPoint}}
               ELSE {})
         \cup {[NoWidget EXCEPT !.toggle = sh] : sh \in Shapes \ {obj.shape}}

\* whether a widget report is one the input budget counts
IsEdit(ev) == ev.chars # <<>> \/ ev.backspace \/ ev.toggle # "none"

---------------------------------------------------------------------------
(* State::new *)

Init ==
    LET grandchild1a == SceneObject_new(4, Str_Mesh, "Square")
        grandchild1b == SceneObject_new(5, Str_Texture, "Triangle")
        grandchild2a == SceneObject_new(6, Str_Shader, "Circle")
        child1 == [SceneObject_new(2, Str_Data, "Circle")
                       EXCEPT !.children = <<grandchild1a, grandchild1b>>]
        child2 == [SceneObject_new(3, Str_Render, "Triangle")
                       EXCEPT !.children = <<grandchild2a>>]
        root == [SceneObject_new(1, Str_Root, "Square") EXCEPT !.children = <<child1, child2>>]
    IN /\ scene_objects = <<root>>
       /\ next_id = 6
       /\ active_settings_id = None
       /\ active_textbox_id = None
       /\ requests = <<>>
       /\ camera = [target |-> Init_target,
                    offset |-> Vector2(SCREEN_WIDTH \div 2, SCREEN_HEIGHT \div 2),
                    zoom |-> UNIT]
       /\ time_since_last_update = 0
       /\ pc = "input"
       /\ edits = 0
       /\ last_step = None
       /\ shadow = [scene_objects |-> <<root>>, next_id |-> 6]

---------------------------------------------------------------------------
(* The handlers, as functions of the state they read and of what is reported *)

\* process_events_and_input, zoom and pan: the camera
camera_input(cam, ev) ==
    LET z1 == IF ev.wheel_move # 0
              THEN cam.zoom + (IF ev.wheel_move > 0 THEN 1 ELSE -1) * ZOOM_INCREMENT
              ELSE cam.zoom
        z2 == IF ev.key_equal THEN z1 + ev.frame_time ELSE z1
        z3 == IF ev.key_minus THEN z2 - ev.frame_time ELSE z2
        zoom == clamp(z3, MIN_ZOOM, MAX_ZOOM)
    IN [cam EXCEPT !.zoom = zoom,
                   !.target = IF ev.right_down
                              THEN Vector2(@.x - div_zoom(ev.mouse_delta.x, zoom),
                                           @.y - div_zoom(ev.mouse_delta.y, zoom))
                              ELSE @]

\* process_events_and_input, click to select: [camera, active_settings_id]
click_select(cam, settings, objects, ev) ==
    LET same == [camera |-> cam, active_settings_id |-> settings] IN
    IF ~ev.left_pressed THEN same
    ELSE IF settings # None /\ ev.mouse_pos.x < PANEL_EDGE THEN same
    ELSE LET world_mouse_pos == screen_to_world(ev.mouse_pos, cam)
             positions == layout_positions(objects)
             clicked_id == find_clicked_in(objects, 1, world_mouse_pos, positions)
         IN IF clicked_id = None THEN same
            ELSE LET id == Unwrap(clicked_id)
                     viewport_center_x == (SCREEN_WIDTH \div 2 + SCREEN_WIDTH) \div 2
                     offset_x == div_zoom(viewport_center_x - cam.offset.x, cam.zoom)
                 IN [camera |-> IF id \in DOMAIN positions
                                THEN [cam EXCEPT !.target =
                                          Vector2(positions[id].x - offset_x, positions[id].y)]
                                ELSE cam,
                     active_settings_id |-> clicked_id]

\* input processing without the early return (told from
\* process_events_and_input by C9)
process_events_and_input_always(cam, settings, textbox, objects, ev) ==
    click_select(camera_input(cam, ev), settings, objects, ev)

\* process_events_and_input: [camera, active_settings_id]
process_events_and_input(cam, settings, textbox, objects, ev) ==
    IF textbox # None THEN [camera |-> cam, active_settings_id |-> settings]
    ELSE click_select(camera_input(cam, ev), settings, objects, ev)

\* a step without the early return (told from step by C2)
step_always(objects, nid, reqs, textbox) ==
    LET r == process_editor_requests(objects, nid, reqs)
    IN [scene_objects |-> r.scene_objects, next_id |-> r.next_id, requests |-> <<>>]

\* step: [scene_objects, next_id, requests]; the rotation update is left out
step(objects, nid, reqs, textbox) ==
    IF textbox # None THEN [scene_objects |-> objects, next_id |-> nid, requests |-> reqs]
    ELSE LET r == process_editor_requests(objects, nid, reqs)
         IN [scene_objects |-> r.scene_objects, next_id |-> r.next_id, requests |-> <<>>]

\* gui_text_box_safe: [text, result]
gui_text_box_safe(ev, bounds, text) ==
    IF check_collision_point_rec(ev.mouse_pos, bounds)
    THEN [text |-> IF ev.backspace THEN pop(text \o ev.chars) ELSE text \o ev.chars,
          result |-> ev.enter]
    ELSE [text |-> text, result |-> FALSE]

\* a panel whose Delete Node button also empties the node's children at once
\* (told from draw_settings_panel by C18)
draw_settings_panel_in_place(settings, reqs, textbox, obj, ev) ==
    LET box == gui_text_box_safe(ev, TextboxBounds, obj.text_buffer)
        typed == [obj EXCEPT !.text_buffer = box.text]
        focus == /\ ~box.result
                 /\ check_collision_point_rec(ev.mouse_pos, TextboxBounds)
                 /\ ev.left_pressed
        commit == \/ box.result
                  \/ ~focus /\ textbox = Some(obj.id) /\ ev.left_pressed
        named == IF commit THEN [typed EXCEPT !.text = typed.text_buffer] ELSE typed
        reqs1 == IF ev.add_child THEN Append(reqs, AddChildReq(obj.id)) ELSE reqs
    IN [active_settings_id |-> IF ev.window_close \/ ev.delete_node THEN None ELSE settings,
        requests |-> IF ev.delete_node THEN Append(reqs1, DeleteNodeReq(obj.id)) ELSE reqs1,
        active_textbox_id |-> IF commit THEN None
                              ELSE IF focus THEN Some(obj.id) ELSE textbox,
        obj |-> [named EXCEPT !.shape = IF ev.toggle = "none" THEN @ ELSE ev.toggle,
                              !.children = IF ev.delete_node THEN <<>> ELSE @]]

\* draw_settings_panel: [active_settings_id, requests, active_textbox_id, obj]
draw_settings_panel(settings, reqs, textbox, obj, ev) ==
    LET box == gui_text_box_safe(ev, TextboxBounds, obj.text_buffer)
        typed == [obj EXCEPT !.text_buffer = box.text]
        focus == /\ ~box.result
                 /\ check_collision_point_rec(ev.mouse_pos, TextboxBounds)
                 /\ ev.left_pressed
        commit == \/ box.result
                  \/ ~focus /\ textbox = Some(obj.id) /\ ev.left_pressed
        named == IF commit THEN [typed EXCEPT !.text = typed.text_buffer] ELSE typed
        reqs1 == IF ev.add_child THEN Append(reqs, AddChildReq(obj.id)) ELSE reqs
    IN [active_settings_id |-> IF ev.window_close \/ ev.delete_node THEN None ELSE settings,
        requests |-> IF ev.delete_node THEN Append(reqs1, DeleteNodeReq(obj.id)) ELSE reqs1,
        active_textbox_id |-> IF commit THEN None
                              ELSE IF focus THEN Some(obj.id) ELSE textbox,
        obj |-> [named EXCEPT !.shape = IF ev.toggle = "none" THEN @ ELSE ev.toggle]]

\* the object whose panel draw shows: None or Some(object)
panel_object(objects, settings) ==
    IF settings = None THEN None ELSE find_object_by_id_mut(objects, Unwrap(settings))

\* draw: [scene_objects, active_settings_id, requests, active_textbox_id]
draw(objects, settings, reqs, textbox, ev) ==
    LET found == panel_object(objects, settings) IN
    IF found = None
    THEN [scene_objects |-> objects, active_settings_id |-> settings,
          requests |-> reqs, active_textbox_id |-> textbox]
    ELSE LET r == draw_settings_panel(settings, reqs, textbox, Unwrap(found), ev)
         IN [scene_objects |-> write_object(objects, Unwrap(settings), r.obj),
             active_settings_id |-> r.active_settings_id,
             requests |-> r.requests,
             active_textbox_id |-> r.active_textbox_id]

---------------------------------------------------------------------------
(* The main loop *)

\* What a frame's input may be.
\*   "camera": no clicks; wheel and zoom keys; drags at the initial zoom.
\*   otherwise: clicks; the camera is moved only while a text field has focus.
Inputs(env) ==
    {NoInput(1)}
    \cup (IF env = "camera"
          THEN ZoomInputs
               \cup (IF /\ camera.zoom = UNIT
                        /\ camera.target.x > Init_target.x - MaxPan * X_SPACING
                     THEN PanInputs ELSE {})
          ELSE ClickInputs
               \cup (IF active_textbox_id # None THEN ZoomInputs \cup PanInputs ELSE {}))

\* What the panel of obj may report.
\*   "editor": close, Add Child, Delete Node.
\*   "focus":  close, Delete Node, presses on and off the text field.
\*   "text":   close, presses on and off the text field, Enter, keystrokes, toggles.
\*   "select": close, Add Child, presses on and off the text field.
\*   "camera": nothing (no click opens the panel).
Widgets(env, obj) ==
    {NoWidget} \cup CloseWidgets
    \cup (IF env = "editor" THEN AddWidgets \cup DeleteWidgets ELSE {})
    \cup (IF env = "focus" THEN DeleteWidgets \cup FocusWidgets ELSE {})
    \cup (IF env = "select" THEN AddWidgets \cup FocusWidgets ELSE {})
    \cup (IF env = "text" THEN FocusWidgets \cup EnterWidgets \cup EditWidgets(obj) ELSE {})

\* main: process_events_and_input with raylib reporting ev
InputWith(ev) ==
    /\ pc = "input"
    /\ LET r == process_events_and_input(camera, active_settings_id, active_textbox_id,
                                         scene_objects, ev)
       IN /\ camera' = r.camera
          /\ active_settings_id' = r.active_settings_id
    /\ pc' = "time"
    /\ UNCHANGED <<scene_objects, next_id, active_textbox_id, requests,
                   time_since_last_update, edits, last_step, shadow>>

\* main: process_events_and_input
Input(env) == \E ev \in Inputs(env) : InputWith(ev)

\* main: the frame time is added to the time since the last update
FrameTime ==
    /\ pc = "time"
    /\ \E dt \in FrameTimes : time_since_last_update' = time_since_last_update + dt
    /\ pc' = "update"
    /\ UNCHANGED <<scene_objects, next_id, active_settings_id, active_textbox_id, requests,
                   camera, edits, last_step, shadow>>

\* main: one turn of the fixed-timestep loop
Step ==
    /\ pc = "update"
    /\ time_since_last_update > TIMESTEP
    /\ time_since_last_update' = time_since_last_update - TIMESTEP
    /\ LET r == step(scene_objects, next_id, requests, active_textbox_id)
       IN /\ scene_objects' = r.scene_objects
          /\ next_id' = r.next_id
          /\ requests' = r.requests
    /\ last_step' = Some([suppressed |-> active_textbox_id # None,
                          applied |-> IF active_textbox_id = None THEN requests ELSE <<>>])
    /\ UNCHANGED <<active_settings_id, active_textbox_id, camera, pc, edits, shadow>>

\* the requests of after that are not in before, applied to the shadow forest
RECURSIVE raise(_, _)
raise(sh, new) ==
    IF new = <<>> THEN sh
    ELSE raise(apply_request(sh.scene_objects, sh.next_id, Head(new)), Tail(new))

\* main: the loop has ended, draw with the widgets reporting ev
DrawWith(ev) ==
    /\ pc = "update"
    /\ time_since_last_update <= TIMESTEP
    /\ LET r == draw(scene_objects, active_settings_id, requests, active_textbox_id, ev)
       IN /\ scene_objects' = r.scene_objects
          /\ active_settings_id' = r.active_settings_id
          /\ requests' = r.requests
          /\ active_textbox_id' = r.active_textbox_id
          /\ shadow' = raise(shadow, SubSeq(r.requests, Len(requests) + 1, Len(r.requests)))
          /\ edits' = IF IsEdit(ev) THEN edits + 1 ELSE edits
    /\ pc' = "input"
    /\ last_step' = None
    /\ UNCHANGED <<next_id, camera, time_since_last_update>>

\* main: the loop has ended, draw
Draw(env) ==
    LET found == panel_object(scene_objects, active_settings_id) IN
    \E ev \in (IF found = None THEN {NoWidget} ELSE Widgets(env, Unwrap(found))) :
        DrawWith(ev)

\* the editor with its buttons
Next == Input("editor") \/ FrameTime \/ Step \/ Draw("editor")
Spec == Init /\ [][Next]_vars

\* the editor with the text field's focus
NextFocus == Input("focus") \/ FrameTime \/ Step \/ Draw("focus")
SpecFocus == Init /\ [][NextFocus]_vars

\* the editor with its keyboard
NextText == Input("text") \/ FrameTime \/ Step \/ Draw("text")
SpecText == Init /\ [][NextText]_vars

\* the same, with the main loop running on: no step of the loop that stays
\* possible is put off for ever (a frame without input and a draw without a
\* widget report are possible whenever input processing and draw are)
SpecFocusFair ==
    /\ Init /\ [][NextFocus]_vars
    /\ WF_vars(InputWith(NoInput(1))) /\ WF_vars(FrameTime)
    /\ WF_vars(Step) /\ WF_vars(DrawWith(NoWidget))

\* the editor with Add Child and the text field's focus
NextSelect == Input("select") \/ FrameTime \/ Step \/ Draw("select")
SpecSelect == Init /\ [][NextSelect]_vars

\* the camera
NextCamera == Input("camera") \/ FrameTime \/ Step \/ Draw("camera")
SpecCamera == Init /\ [][NextCamera]_vars

---------------------------------------------------------------------------
(* Vocabulary of the properties *)

\* the ids of the nodes of a forest
RECURSIVE ids_of(_)
ids_of(objects) ==
    IF objects = <<>> THEN {}
    ELSE {Head(objects).id} \cup ids_of(Head(objects).children) \cup ids_of(Tail(objects))

\* the number of nodes of a forest
RECURSIVE count_nodes(_)
count_nodes(objects) ==
    IF objects = <<>> THEN 0
    ELSE 1 + count_nodes(Head(objects).children) + count_nodes(Tail(objects))

\* a forest reduced to its ids and their parent/child order
RECURSIVE skeleton(_)
skeleton(objects) ==
    [i \in 1..Len(objects) |->
        [id |-> objects[i].id, children |-> skeleton(objects[i].children)]]

present(objects, id) == find_object_by_id_mut(objects, id) # None
node_of(objects, id) == Unwrap(find_object_by_id_mut(objects, id))
id_seq(objects) == [i \in 1..Len(objects) |-> objects[i].id]
child_ids(objects, id) == id_seq(node_of(objects, id).children)
subtree_ids(objects, id) == ids_of(<<node_of(objects, id)>>)

\* a sequence of ids without those of a set
RECURSIVE without(_, _)
without(seq, gone) ==
    IF seq = <<>> THEN <<>>
    ELSE (IF Head(seq) \in gone THEN <<>> ELSE <<Head(seq)>>) \o without(Tail(seq), gone)

\* the label, buffer and shape of a node
face(objects, id) ==
    LET obj == node_of(objects, id)
    IN [text |-> obj.text, text_buffer |-> obj.text_buffer, shape |-> obj.shape]

\* a step that drains the queue
Drain == Step /\ active_textbox_id = None

\* the forest and next_id a drain of the pending queue reaches after k requests
after(k) == process_editor_requests(scene_objects, next_id, SubSeq(requests, 1, k))

\* what the latest step of this frame applied
applied == IF last_step = None THEN <<>> ELSE Unwrap(last_step).applied

---------------------------------------------------------------------------
(* The request queue and the tree *)

\* C1: after every drain of the request queue, active_settings_id is None or
\* the id of a node that find_object_by_id_mut still finds in the forest.
C1_SettingsPresentAfterDrain ==
    [][Drain => \/ active_settings_id' = None
                \/ present(scene_objects', Unwrap(active_settings_id'))]_vars

\* C2: active_textbox_id is always None or the id of a node of the forest; a
\* drain never leaves the focus on a node it removed, and changes no label of
\* a node that survives it.
C2_EditFocusNeverDangles ==
    /\ [](active_textbox_id = None \/ present(scene_objects, Unwrap(active_textbox_id)))
    /\ [][Drain =>
            /\ \/ active_textbox_id' = None
               \/ present(scene_objects', Unwrap(active_textbox_id'))
            /\ \A id \in ids_of(scene_objects') \cap ids_of(scene_objects) :
                   node_of(scene_objects', id).text = node_of(scene_objects, id).text]_vars

\* C2, its case: a step has run while a node held the edit focus and a
\* DeleteNode for that node was pending
C2_Witness ==
    /\ last_step # None
    /\ active_textbox_id # None
    /\ \E i \in 1..Len(requests) : requests[i] = DeleteNodeReq(Unwrap(active_textbox_id))

DeleteCascades(before, id, now) ==
    LET gone == subtree_ids(before, id) IN
    /\ ids_of(now) = ids_of(before) \ gone
    /\ \A n \in gone : find_object_by_id_mut(now, n) = None
    /\ id_seq(now) = without(id_seq(before), gone)
    /\ \A n \in ids_of(before) \ gone :
          /\ present(now, n)
          /\ face(now, n) = face(before, n)
          /\ child_ids(now, n) = without(child_ids(before, n), gone)

\* C4: a drained DeleteNode{id} for an id of the forest removes exactly the
\* subtree of that node: the id and its descendants are no longer found, every
\* other node is found with its label and with its children and siblings in
\* their order.
C4_DeleteCascades ==
    [][Drain =>
          /\ scene_objects' = after(Len(requests)).scene_objects
          /\ \A k \in 1..Len(requests) :
                (/\ requests[k].kind = "DeleteNode"
                 /\ present(after(k - 1).scene_objects, requests[k].id))
                => DeleteCascades(after(k - 1).scene_objects, requests[k].id,
                                  after(k).scene_objects)]_vars

\* C4, its case: a drain has deleted Data (2) with its children Mesh (4) and
\* Texture (5), and the rest of the seed tree is still there
C4_Witness ==
    /\ applied = <<DeleteNodeReq(2)>>
    /\ ids_of(scene_objects) = {1, 3, 6}

\* C5: the ids of the forest are pairwise distinct and at most next_id;
\* next_id never decreases, and a node that enters the forest has an id above
\* the next_id of before, so an id no node has held.
C5_IdsUniqueNeverReused ==
    /\ [](/\ count_nodes(scene_objects) = Cardinality(ids_of(scene_objects))
          /\ \A id \in ids_of(scene_objects) : id <= next_id)
    /\ [][/\ next_id' >= next_id
          /\ \A id \in ids_of(scene_objects') \ ids_of(scene_objects) : id > next_id]_vars

\* C5, its case: a node was deleted and a node created since
C5_Witness ==
    /\ next_id \in ids_of(scene_objects)
    /\ Cardinality(ids_of(scene_objects)) < next_id

\* what AddChild{parent_id} does to a forest that holds parent_id
AddChildAppends(before, nid, parent_id, now) ==
    LET id == nid + 1 IN
    /\ id \notin ids_of(before)
    /\ ids_of(now) = ids_of(before) \cup {id}
    /\ node_of(now, id) = [id |-> id, text |-> Str_NewNode, shape |-> "Square",
                           children |-> <<>>, text_buffer |-> Str_NewNode]
    /\ Len(node_of(now, parent_id).children) = Len(node_of(before, parent_id).children) + 1
    /\ child_ids(now, parent_id) = Append(child_ids(before, parent_id), id)
    /\ id_seq(now) = id_seq(before)
    /\ \A n \in ids_of(before) :
          /\ face(now, n) = face(before, n)
          /\ n # parent_id => child_ids(now, n) = child_ids(before, n)

\* C6: a drained AddChild{parent_id} for a parent of the forest appends one
\* node to that parent's children, labelled "New Node", Square and childless,
\* and changes no other node and no order.
C6_AddChildAppends ==
    [][Drain =>
          /\ scene_objects' = after(Len(requests)).scene_objects
          /\ \A k \in 1..Len(requests) :
                (/\ requests[k].kind = "AddChild"
                 /\ present(after(k - 1).scene_objects, requests[k].id))
                => AddChildAppends(after(k - 1).scene_objects, after(k - 1).next_id,
                                   requests[k].id, after(k).scene_objects)]_vars

\* C6, its case: a drain has added a third child to Data (2)
C6_Witness ==
    /\ applied = <<AddChildReq(2)>>
    /\ present(scene_objects, 2)
    /\ child_ids(scene_objects, 2) = <<4, 5, 7>>

\* C7: a drained request whose id is not in the forest leaves the forest as it
\* is, and a second DeleteNode{id} changes nothing after the first.
C7_MissingIdDropped ==
    /\ [][Drain =>
            \A k \in 1..Len(requests) :
                ~present(after(k - 1).scene_objects, requests[k].id)
                => after(k).scene_objects = after(k - 1).scene_objects]_vars
    /\ [](\A id \in 1..next_id :
            LET once == apply_request(scene_objects, next_id, DeleteNodeReq(id))
            IN apply_request(once.scene_objects, once.next_id, DeleteNodeReq(id)).scene_objects
                   = once.scene_objects)

\* C7, its case: a drain has applied a DeleteNode and then a request for the
\* id the DeleteNode removed
C7_Witness ==
    /\ Len(applied) = 2
    /\ applied[1].kind = "DeleteNode"
    /\ applied[2].id = applied[1].id

---------------------------------------------------------------------------
(* The text field and the camera *)

\* the node whose panel is drawn holds the edit focus
Editing ==
    /\ active_textbox_id # None
    /\ active_textbox_id = active_settings_id
    /\ present(scene_objects, Unwrap(active_textbox_id))

\* C8: Enter, pressed while the node of the panel has the edit focus, sets the
\* node's label to its edit buffer and sets active_textbox_id to None.
C8_EnterCommits ==
    [][\A ev \in EnterWidgets :
          (Editing /\ DrawWith(ev))
          => LET obj == node_of(scene_objects', Unwrap(active_textbox_id))
             IN obj.text = obj.text_buffer /\ active_textbox_id' = None]_vars

\* C9: while active_textbox_id is Some, input processing and the tick update
\* leave the camera, active_settings_id and the forest's nodes and their
\* parent/child order as they are.
C9_SuppressedWhileEditing ==
    [][(active_textbox_id # None /\ (Input("focus") \/ Step))
          => /\ camera' = camera
             /\ active_settings_id' = active_settings_id
             /\ skeleton(scene_objects') = skeleton(scene_objects)
             /\ requests' = requests]_vars

\* C9, its case: input processing and a step have run in a frame in which a
\* node held the edit focus and a request was pending
C9_Witness ==
    /\ last_step # None
    /\ Unwrap(last_step).suppressed
    /\ active_settings_id # None
    /\ requests # <<>>

\* C10: camera.zoom is within [0.1, 2.0] in every state.
C10_ZoomClamp == MIN_ZOOM <= camera.zoom /\ camera.zoom <= MAX_ZOOM

\* C10, its case: input processing has brought the zoom to its lower limit
C10_Witness == pc = "time" /\ camera.zoom = MIN_ZOOM

---------------------------------------------------------------------------
(* Layout and hit-testing of the reachable forests *)

\* C11: the layout pass over the roots gives a position to exactly the ids of
\* the forest: no node is left out and no other id is a key.
C11_LayoutComplete == [](DOMAIN layout_positions(scene_objects) = ids_of(scene_objects))

\* C11, its case: the layout of a forest from which a drain has removed nodes
\* and to which it has added one
C11_Witness ==
    /\ applied # <<>>
    /\ next_id \in DOMAIN layout_positions(scene_objects)
    /\ Cardinality(DOMAIN layout_positions(scene_objects)) < next_id - 1

\* C12: the hit test at the laid-out position of a node of the forest returns
\* that node's id.
C12_HitTestContainment ==
    [](LET positions == layout_positions(scene_objects) IN
       \A n \in ids_of(scene_objects) :
           /\ n \in DOMAIN positions
           /\ find_clicked_in(scene_objects, 1, positions[n], positions) = Some(n))

\* C12, its case: a click at the position of a node a drain has added has
\* selected that node, a later sibling of nodes of the seed
C12_Witness ==
    /\ pc = "time"
    /\ active_settings_id = Some(next_id)
    /\ \E p \in ids_of(scene_objects) :
          /\ Len(node_of(scene_objects, p).children) >= 2
          /\ child_ids(scene_objects, p)[Len(node_of(scene_objects, p).children)] = next_id

---------------------------------------------------------------------------
(* The two focus ids *)

\* the number of nodes of a forest that carry the id an Option holds
RECURSIVE count_holding(_, _)
count_holding(objects, opt) ==
    IF objects = <<>> THEN 0
    ELSE (IF opt = Some(Head(objects).id) THEN 1 ELSE 0)
         + count_holding(Head(objects).children, opt)
         + count_holding(Tail(objects), opt)

\* C13: at most one node of the forest is the node active_textbox_id names
\* (Editing) and at most one is the node active_settings_id names.
C13_FocusExclusive ==
    /\ count_holding(scene_objects, active_textbox_id) <= 1
    /\ count_holding(scene_objects, active_settings_id) <= 1

\* C13, its case: a node a drain has added holds the edit focus, among the
\* nodes of the seed
C13_Witness ==
    /\ active_textbox_id = Some(next_id)
    /\ count_holding(scene_objects, active_textbox_id) = 1
    /\ node_of(scene_objects, next_id).text = Str_NewNode

---------------------------------------------------------------------------
(* The order of a frame *)

\* a DeleteNode waits in the queue for a node that is still in the forest
DeletePending ==
    \E i \in 1..Len(requests) :
        /\ requests[i].kind = "DeleteNode"
        /\ present(scene_objects, requests[i].id)

\* C14: a request raised in a frame's interaction pass is drained before the
\* next input is processed: no click is hit-tested, and so none changes the
\* selection, while a DeleteNode waits for a node still in the forest.
C14_DrainBeforeInput ==
    [][(Input("editor") /\ active_settings_id' # active_settings_id)
          => ~DeletePending]_vars


\* C15: every request that enters the queue is in time removed from it by a
\* drain: a queue that is not empty becomes empty.
C15_EventuallyDrained == (requests # <<>>) ~> (requests = <<>>)


\* C16: a node that holds the edit focus has its panel open:
\* active_textbox_id = Some(id) implies active_settings_id = Some(id).
C16_FocusImpliesPanel ==
    active_textbox_id # None => active_settings_id = active_textbox_id

\* C17: the edit buffer of a node changes only while that node holds the edit
\* focus; while active_textbox_id is None no buffer changes.
C17_BufferOnlyWhileFocused ==
    [][\A id \in ids_of(scene_objects) \cap ids_of(scene_objects') :
          active_textbox_id # Some(id)
          => node_of(scene_objects', id).text_buffer
                 = node_of(scene_objects, id).text_buffer]_vars


\* C18: the nodes of the forest and their parent/child order change only in a
\* drain of the queue: input processing, the frame time, a suppressed step and
\* draw, with its Add Child and Delete Node buttons, leave them as they are.
C18_StructureChangesOnlyInDrain ==
    [][skeleton(scene_objects') # skeleton(scene_objects) => Drain]_vars

\* C18, its case: draw has run with a button pressed, the request waits in the
\* queue and the forest does not show its effect yet
C18_Witness ==
    /\ pc = "input"
    /\ requests # <<>>
    /\ skeleton(scene_objects) # skeleton(shadow.scene_objects)

---------------------------------------------------------------------------
(* The shape of the layout *)

\* the ids of the nodes of a forest that have children
parents_of(objects) ==
    {n \in ids_of(objects) : node_of(objects, n).children # <<>>}

\* the ids of the leaves of a forest, depth-first, pre-order
RECURSIVE leaves_of(_)
leaves_of(objects) ==
    IF objects = <<>> THEN <<>>
    ELSE (IF Head(objects).children = <<>> THEN <<Head(objects).id>>
          ELSE leaves_of(Head(objects).children))
         \o leaves_of(Tail(objects))

\* twice the y of the middle between the first and the last child of a node
children_span(objects, positions, n) ==
    LET kids == child_ids(objects, n)
    IN positions[kids[1]].y + positions[kids[Len(kids)]].y

\* twice the y of the middle between the first and the last leaf under a node
leaves_span(objects, positions, n) ==
    LET leaves == leaves_of(node_of(objects, n).children)
    IN positions[leaves[1]].y + positions[leaves[Len(leaves)]].y

\* C19, as claimed: the y of a node with children is the middle between the
\* y of its first and of its last child.
C19_CenteredOnChildren ==
    LET positions == layout_positions(scene_objects) IN
    \A n \in parents_of(scene_objects) :
        2 * positions[n].y = children_span(scene_objects, positions, n)

\* C19, amended: the y of a node with children is the middle between the y
\* of the first and of the last leaf of its subtree.
C19_CenteredOnLeaves ==
    [](LET positions == layout_positions(scene_objects) IN
       \A n \in parents_of(scene_objects) :
           2 * positions[n].y = leaves_span(scene_objects, positions, n))

\* C19, its case: the layout of a forest a drain has changed, with a node
\* that is not in the middle between its first and its last child
C19_Witness ==
    LET positions == layout_positions(scene_objects) IN
    /\ applied # <<>>
    /\ \E n \in parents_of(scene_objects) :
          2 * positions[n].y # children_span(scene_objects, positions, n)

\* C20: a child is X_SPACING to the right of its parent and a root is at
\* LAYOUT_X, and from one leaf to the next, depth-first and pre-order, y grows
\* by Y_SPACING.
C20_LayoutGrid ==
    [](LET positions == layout_positions(scene_objects)
           leaves == leaves_of(scene_objects)
       IN /\ \A i \in 1..Len(scene_objects) : positions[scene_objects[i].id].x = LAYOUT_X
          /\ \A n \in parents_of(scene_objects) :
                \A i \in 1..Len(child_ids(scene_objects, n)) :
                    positions[child_ids(scene_objects, n)[i]].x = positions[n].x + X_SPACING
          /\ \A i \in 1..(Len(leaves) - 1) :
                positions[leaves[i + 1]].y = positions[leaves[i]].y + Y_SPACING)

\* C20, its case: the layout of a forest in which a drain has put a leaf at a
\* depth the seed does not have
C20_Witness ==
    LET positions == layout_positions(scene_objects) IN
    /\ applied # <<>>
    /\ present(scene_objects, next_id)
    /\ positions[next_id].x = LAYOUT_X + 3 * X_SPACING

====
